---- MODULE Spec2Model ----
(***************************************************************************)
(* LSB steganography of app.py: embed_image_data / extract_image_data over *)
(* an RGB pixel grid and embed_audio_data / extract_audio_data over a mono *)
(* 16-bit WAV.  One behaviour is one call of one of the four functions,    *)
(* optionally followed by extract_* applied to the carrier embed_* returned.*)
(***************************************************************************)
EXTENDS Integers, Sequences, FiniteSets, TLC

VARIABLES fn, pc, secret, image_bytes, audio_bytes, pixels, params, samples,
          binary, bit_idx, x, y, new_samples, output, error, text, origin

vars == <<fn, pc, secret, image_bytes, audio_bytes, pixels, params, samples,
          binary, bit_idx, x, y, new_samples, output, error, text, origin>>

-----------------------------------------------------------------------------
(* Bounds and input alphabets *)

MaxLen == 3

\* code points of the secret: 'A', DEL, three Latin-1 letters whose bits
\* build the marker, and the Cyrillic letter U+043F
Chars == {65, 127, 252, 254, 255, 1087}

RECURSIVE SeqsUpTo(_, _)
SeqsUpTo(S, n) ==
    IF n = 0 THEN {<<>>}
    ELSE LET shorter == SeqsUpTo(S, n - 1)
         IN shorter \cup {Append(s, c) : s \in {t \in shorter : Len(t) = n - 1}, c \in S}

Messages == SeqsUpTo(Chars, MaxLen)

ImageSizes == {<<1, 5>>, <<4, 2>>, <<3, 3>>, <<4, 4>>}
AudioLens  == {15, 24, 27, 48}
Patterns   == {"even", "odd", "mixed", "marked"}

-----------------------------------------------------------------------------
(* Python primitives used by the four functions *)

\* '1111111111111110'
EOF == <<1, 1, 1, 1, 1, 1, 1, 1, 1, 1, 1, 1, 1, 1, 1, 0>>

RECURSIVE Bin(_)
\* format(n, 'b')
Bin(n) == IF n < 2 THEN <<n>> ELSE Append(Bin(n \div 2), n % 2)

\* format(n, '08b'): binary digits, zero-padded on the left to a MINIMUM
\* width of 8; wider numbers keep all their digits
Format08b(n) ==
    LET b == Bin(n)
    IN IF Len(b) >= 8 THEN b ELSE [k \in 1..(8 - Len(b)) |-> 0] \o b

RECURSIVE JoinFormat(_)
\* ''.join(format(ord(c), '08b') for c in secret)
JoinFormat(s) == IF s = <<>> THEN <<>> ELSE Format08b(Head(s)) \o JoinFormat(Tail(s))

\* variant: the marker is not appended
Frame_NoMarker(s) == JoinFormat(s)

\* binary built by embed_*: the joined digits plus the EOF marker
Frame(s) == JoinFormat(s) \o EOF

RECURSIVE Int2(_)
\* int(byte, 2)
Int2(b) == IF b = <<>> THEN 0 ELSE 2 * Int2(SubSeq(b, 1, Len(b) - 1)) + b[Len(b)]

\* eof in binary
Contains(b, e) == \E i \in 0..(Len(b) - Len(e)) : SubSeq(b, i + 1, i + Len(e)) = e

\* binary.index(eof): lowest 0-based index of an occurrence
Index(b, e) ==
    CHOOSE i \in 0..(Len(b) - Len(e)) :
        /\ SubSeq(b, i + 1, i + Len(e)) = e
        /\ \A j \in 0..(i - 1) : SubSeq(b, j + 1, j + Len(e)) # e

\* if eof in binary: binary = binary[:binary.index(eof)]
CutAtEof(b) == IF Contains(b, EOF) THEN SubSeq(b, 1, Index(b, EOF)) ELSE b

RECURSIVE DecodeText_Pad(_)
\* variant: a trailing group shorter than 8 bits is decoded as well
DecodeText_Pad(b) ==
    IF b = <<>> THEN <<>>
    ELSE IF Len(b) < 8 THEN <<Int2(b)>>
    ELSE <<Int2(SubSeq(b, 1, 8))>> \o DecodeText_Pad(SubSeq(b, 9, Len(b)))

RECURSIVE DecodeText(_)
\* for i in range(0, len(binary), 8): byte = binary[i:i+8];
\*     if len(byte) == 8: text += chr(int(byte, 2))
DecodeText(b) ==
    IF b = <<>> THEN <<>>
    ELSE IF Len(b) < 8 THEN <<>>
    ELSE <<Int2(SubSeq(b, 1, 8))>> \o DecodeText(SubSeq(b, 9, Len(b)))

\* (v & 0xFE) | bit  for a channel value v in 0..255
SetLsb8(v, bit) == (v - (v % 2)) + bit

\* (s & ~1) | bit  for a Python int s (two's complement, floor modulus)
SetLsbInt(s, bit) == (s - (s % 2)) + bit

\* v & 1
Lsb(v) == v % 2

RECURSIVE Unpack(_)
\* struct.unpack('<' + 'h' * n, frames): little-endian signed 16-bit
Unpack(frames) ==
    IF Len(frames) < 2 THEN <<>>
    ELSE LET u == frames[1] + 256 * frames[2]
         IN <<IF u >= 32768 THEN u - 65536 ELSE u>> \o Unpack(SubSeq(frames, 3, Len(frames)))

\* struct.pack accepts a value for 'h' only in the signed 16-bit range
Packable(s) == \A k \in 1..Len(s) : s[k] >= -32768 /\ s[k] <= 32767

RECURSIVE Pack(_)
\* struct.pack('<' + 'h' * n, *new_samples)
Pack(s) ==
    IF s = <<>> THEN <<>>
    ELSE LET u == IF Head(s) < 0 THEN Head(s) + 65536 ELSE Head(s)
         IN <<u % 256, u \div 256>> \o Pack(Tail(s))

RECURSIVE ScanFrom(_, _, _, _, _)
\* the double loop of extract_image_data from position (cx, cy) on:
\* rows top to bottom, columns left to right, channels r, g, b
ScanFrom(px, w, h, cx, cy) ==
    IF cy >= h THEN <<>>
    ELSE IF cx >= w THEN ScanFrom(px, w, h, 0, cy + 1)
    ELSE <<Lsb(px[<<cx, cy>>][1]), Lsb(px[<<cx, cy>>][2]), Lsb(px[<<cx, cy>>][3])>>
             \o ScanFrom(px, w, h, cx + 1, cy)

\* ''.join(str(s & 1) for s in samples)
SampleBits(s) == [k \in 1..Len(s) |-> Lsb(s[k])]

-----------------------------------------------------------------------------
(* Carriers the functions are called with *)

\* LSB of unit k (0-based) of an input carrier
PatternLsb(p, k) ==
    CASE p = "even"   -> 0
      [] p = "odd"    -> 1
      [] p = "mixed"  -> IF k % 3 = 0 THEN 1 ELSE 0
      [] p = "marked" -> IF k >= 10 /\ k <= 24 THEN 1 ELSE (k + 1) % 2

\* 8-bit channel value of unit k
Channel(p, k) == 2 * ((k * 37 + 5) % 128) + PatternLsb(p, k)

\* signed 16-bit sample value of unit k
Sample(p, k) == 2 * ((k * 4681 + 7) % 32768) - 32768 + PatternLsb(p, k)

Grid(w, h) == (0..(w - 1)) \X (0..(h - 1))

MakeImage(w, h, p) ==
    [width |-> w, height |-> h,
     px |-> [c \in Grid(w, h) |->
               LET k == 3 * (c[2] * w + c[1])
               IN <<Channel(p, k), Channel(p, k + 1), Channel(p, k + 2)>>]]

MakeAudio(n, p) ==
    [nchannels |-> 1, sampwidth |-> 2, framerate |-> 44100,
     frames |-> Pack([k \in 1..n |-> Sample(p, k - 1)])]

Images == {MakeImage(s[1], s[2], p) : s \in ImageSizes, p \in Patterns}

MonoAudios == {MakeAudio(n, p) : n \in AudioLens, p \in Patterns}

\* stereo 16-bit and mono 8-bit streams
OtherAudios ==
    {[nchannels |-> 2, sampwidth |-> 2, framerate |-> 44100,
      frames |-> Pack([k \in 1..48 |-> Sample("odd", k - 1)])],
     [nchannels |-> 1, sampwidth |-> 1, framerate |-> 44100,
      frames |-> [k \in 1..48 |-> Channel("even", k - 1)]]}

Audios == MonoAudios \cup OtherAudios

\* a 10x10 image with a secret that fills its 300 bits and one that is a
\* character longer
FullImage == MakeImage(10, 10, "mixed")
FullSecrets == {[k \in 1..35 |-> 65], [k \in 1..36 |-> 65]}

NoImage == [width |-> 0, height |-> 0, px |-> <<>>]
NoAudio == [nchannels |-> 0, sampwidth |-> 0, framerate |-> 0, frames |-> <<>>]
NoOutput == [kind |-> "none"]
NoCall == [fn |-> "none"]

-----------------------------------------------------------------------------
(* Initial states: one call with its arguments *)

Locals ==
    /\ pc = "call"
    /\ pixels = <<>>
    /\ params = NoAudio
    /\ samples = <<>>
    /\ binary = <<>>
    /\ bit_idx = 0
    /\ x = 0
    /\ y = 0
    /\ new_samples = <<>>
    /\ output = NoOutput
    /\ error = "none"
    /\ text = <<>>
    /\ origin = NoCall

Init ==
    /\ Locals
    /\ \/ /\ fn = "embed_image_data"
          /\ image_bytes \in Images
          /\ audio_bytes = NoAudio
          /\ secret \in Messages
       \/ /\ fn = "embed_image_data"
          /\ image_bytes = FullImage
          /\ audio_bytes = NoAudio
          /\ secret \in FullSecrets
       \/ /\ fn = "extract_image_data"
          /\ image_bytes \in Images
          /\ audio_bytes = NoAudio
          /\ secret = <<>>
       \/ /\ fn = "embed_audio_data"
          /\ image_bytes = NoImage
          /\ audio_bytes \in Audios
          /\ secret \in Messages
       \/ /\ fn = "extract_audio_data"
          /\ image_bytes = NoImage
          /\ audio_bytes \in Audios
          /\ secret = <<>>

-----------------------------------------------------------------------------
(* embed_image_data *)

\* img = Image.open(...).convert('RGB'); width, height = img.size; pixels = img.load()
EmbedImageOpen ==
    /\ fn = "embed_image_data" /\ pc = "call"
    /\ pixels' = image_bytes.px
    /\ pc' = "frame"
    /\ UNCHANGED <<fn, secret, image_bytes, audio_bytes, params, samples, binary,
                   bit_idx, x, y, new_samples, output, error, text, origin>>

\* binary = ''.join(...); binary += '1111111111111110'
EmbedImageFrame ==
    /\ fn = "embed_image_data" /\ pc = "frame"
    /\ binary' = Frame(secret)
    /\ pc' = "check"
    /\ UNCHANGED <<fn, secret, image_bytes, audio_bytes, pixels, params, samples,
                   bit_idx, x, y, new_samples, output, error, text, origin>>

\* variant: the length test is missing, the loop is entered at once
EmbedImageCheck_NoTest ==
    /\ fn = "embed_image_data" /\ pc = "check"
    /\ bit_idx' = 0
    /\ x' = 0
    /\ y' = 0
    /\ pc' = "loop"
    /\ UNCHANGED <<fn, secret, image_bytes, audio_bytes, pixels, params, samples,
                   binary, new_samples, output, error, text, origin>>

\* if len(binary) > width * height * 3: raise ValueError(...); bit_idx = 0
EmbedImageCheck ==
    /\ fn = "embed_image_data" /\ pc = "check"
    /\ IF Len(binary) > image_bytes.width * image_bytes.height * 3
       THEN /\ error' = "too_long"
            /\ pc' = "raised"
            /\ UNCHANGED <<bit_idx, x, y>>
       ELSE /\ bit_idx' = 0
            /\ x' = 0
            /\ y' = 0
            /\ pc' = "loop"
            /\ UNCHANGED error
    /\ UNCHANGED <<fn, secret, image_bytes, audio_bytes, pixels, params, samples,
                   binary, new_samples, output, text, origin>>

\* the three guarded channel writes of one pixel
WritePixel(p, b, idx) ==
    LET r1 == IF idx < Len(b) THEN SetLsb8(p[1], b[idx + 1]) ELSE p[1]
        i1 == IF idx < Len(b) THEN idx + 1 ELSE idx
        g1 == IF i1 < Len(b) THEN SetLsb8(p[2], b[i1 + 1]) ELSE p[2]
        i2 == IF i1 < Len(b) THEN i1 + 1 ELSE i1
        b1 == IF i2 < Len(b) THEN SetLsb8(p[3], b[i2 + 1]) ELSE p[3]
        i3 == IF i2 < Len(b) THEN i2 + 1 ELSE i2
    IN [pixel |-> <<r1, g1, b1>>, idx |-> i3]

\* one iteration of "for x in range(width)" inside "for y in range(height)",
\* with the loop control that follows it
EmbedImagePixel ==
    /\ fn = "embed_image_data" /\ pc = "loop"
    /\ IF y >= image_bytes.height
       THEN \* for y exhausted
            /\ pc' = "save"
            /\ UNCHANGED <<pixels, bit_idx, x, y>>
       ELSE IF x >= image_bytes.width \/ bit_idx >= Len(binary)
       THEN \* for x exhausted, or inner break: the row is over
            IF bit_idx >= Len(binary)
            THEN /\ pc' = "save"
                 /\ UNCHANGED <<pixels, bit_idx, x, y>>
            ELSE /\ y' = y + 1
                 /\ x' = 0
                 /\ UNCHANGED <<pixels, bit_idx, pc>>
       ELSE LET w == WritePixel(pixels[<<x, y>>], binary, bit_idx)
            IN /\ pixels' = [pixels EXCEPT ![<<x, y>>] = w.pixel]
               /\ bit_idx' = w.idx
               /\ x' = x + 1
               /\ UNCHANGED <<y, pc>>
    /\ UNCHANGED <<fn, secret, image_bytes, audio_bytes, params, samples, binary,
                   new_samples, output, error, text, origin>>

\* img.save(output, format='PNG'); return output
EmbedImageSave ==
    /\ fn = "embed_image_data" /\ pc = "save"
    /\ output' = [kind |-> "image", width |-> image_bytes.width,
                  height |-> image_bytes.height, px |-> pixels]
    /\ pc' = "returned"
    /\ UNCHANGED <<fn, secret, image_bytes, audio_bytes, pixels, params, samples,
                   binary, bit_idx, x, y, new_samples, error, text, origin>>

-----------------------------------------------------------------------------
(* extract_image_data *)

\* img = Image.open(...).convert('RGB'); pixels = img.load(); the scan loop
ExtractImageScan ==
    /\ fn = "extract_image_data" /\ pc = "call"
    /\ pixels' = image_bytes.px
    /\ binary' = ScanFrom(image_bytes.px, image_bytes.width, image_bytes.height, 0, 0)
    /\ pc' = "eof"
    /\ UNCHANGED <<fn, secret, image_bytes, audio_bytes, params, samples,
                   bit_idx, x, y, new_samples, output, error, text, origin>>

\* if eof in binary: binary = binary[:binary.index(eof)]
ExtractImageCut ==
    /\ fn = "extract_image_data" /\ pc = "eof"
    /\ binary' = CutAtEof(binary)
    /\ pc' = "decode"
    /\ UNCHANGED <<fn, secret, image_bytes, audio_bytes, pixels, params, samples,
                   bit_idx, x, y, new_samples, output, error, text, origin>>

\* the text loop; return text
ExtractImageDecode ==
    /\ fn = "extract_image_data" /\ pc = "decode"
    /\ text' = DecodeText(binary)
    /\ pc' = "returned"
    /\ UNCHANGED <<fn, secret, image_bytes, audio_bytes, pixels, params, samples,
                   binary, bit_idx, x, y, new_samples, output, error, origin>>

-----------------------------------------------------------------------------
(* embed_audio_data *)

\* variant: "and" in place of "or"
Unsupported_And(a) == a.nchannels # 1 /\ a.sampwidth # 2

\* the format test
Unsupported(a) == a.nchannels # 1 \/ a.sampwidth # 2

\* with wave.open(...): format test, params, frames; num_samples; samples
EmbedAudioOpen ==
    /\ fn = "embed_audio_data" /\ pc = "call"
    /\ IF Unsupported(audio_bytes)
       THEN /\ error' = "unsupported"
            /\ pc' = "raised"
            /\ UNCHANGED <<params, samples>>
       ELSE /\ params' = [audio_bytes EXCEPT !.frames = <<>>]
            /\ samples' = Unpack(audio_bytes.frames)
            /\ pc' = "frame"
            /\ UNCHANGED error
    /\ UNCHANGED <<fn, secret, image_bytes, audio_bytes, pixels, binary,
                   bit_idx, x, y, new_samples, output, text, origin>>

\* binary = ''.join(...) + '1111111111111110'
EmbedAudioFrame ==
    /\ fn = "embed_audio_data" /\ pc = "frame"
    /\ binary' = Frame(secret)
    /\ pc' = "check"
    /\ UNCHANGED <<fn, secret, image_bytes, audio_bytes, pixels, params, samples,
                   bit_idx, x, y, new_samples, output, error, text, origin>>

\* if len(binary) > num_samples: raise ValueError(...); new_samples = []
EmbedAudioCheck ==
    /\ fn = "embed_audio_data" /\ pc = "check"
    /\ IF Len(binary) > Len(samples)
       THEN /\ error' = "too_long"
            /\ pc' = "raised"
            /\ UNCHANGED new_samples
       ELSE /\ new_samples' = <<>>
            /\ pc' = "loop"
            /\ UNCHANGED error
    /\ UNCHANGED <<fn, secret, image_bytes, audio_bytes, pixels, params, samples,
                   binary, bit_idx, x, y, output, text, origin>>

\* one iteration of "for i in range(num_samples)"; i = len(new_samples)
EmbedAudioSample ==
    /\ fn = "embed_audio_data" /\ pc = "loop"
    /\ LET i == Len(new_samples)
       IN IF i >= Len(samples)
          THEN /\ pc' = "save"
               /\ UNCHANGED new_samples
          ELSE /\ new_samples' =
                     IF i < Len(binary)
                     THEN Append(new_samples, SetLsbInt(samples[i + 1], binary[i + 1]))
                     ELSE Append(new_samples, samples[i + 1])
               /\ UNCHANGED pc
    /\ UNCHANGED <<fn, secret, image_bytes, audio_bytes, pixels, params, samples,
                   binary, bit_idx, x, y, output, error, text, origin>>

\* new_frames = struct.pack(...); wf_out.setparams(params); writeframes; return
EmbedAudioSave ==
    /\ fn = "embed_audio_data" /\ pc = "save"
    /\ IF Packable(new_samples)
       THEN /\ output' = [kind |-> "audio", nchannels |-> params.nchannels,
                          sampwidth |-> params.sampwidth,
                          framerate |-> params.framerate,
                          frames |-> Pack(new_samples)]
            /\ pc' = "returned"
            /\ UNCHANGED error
       ELSE /\ error' = "struct"
            /\ pc' = "raised"
            /\ UNCHANGED output
    /\ UNCHANGED <<fn, secret, image_bytes, audio_bytes, pixels, params, samples,
                   binary, bit_idx, x, y, new_samples, text, origin>>

-----------------------------------------------------------------------------
(* extract_audio_data *)

\* with wave.open(...): format test, frames; num_samples; samples
ExtractAudioOpen ==
    /\ fn = "extract_audio_data" /\ pc = "call"
    /\ IF Unsupported(audio_bytes)
       THEN /\ error' = "unsupported"
            /\ pc' = "raised"
            /\ UNCHANGED samples
       ELSE /\ samples' = Unpack(audio_bytes.frames)
            /\ pc' = "scan"
            /\ UNCHANGED error
    /\ UNCHANGED <<fn, secret, image_bytes, audio_bytes, pixels, params, binary,
                   bit_idx, x, y, new_samples, output, text, origin>>

\* binary = ''.join(str(s & 1) for s in samples)
ExtractAudioScan ==
    /\ fn = "extract_audio_data" /\ pc = "scan"
    /\ binary' = SampleBits(samples)
    /\ pc' = "eof"
    /\ UNCHANGED <<fn, secret, image_bytes, audio_bytes, pixels, params, samples,
                   bit_idx, x, y, new_samples, output, error, text, origin>>

\* if eof in binary: binary = binary[:binary.index(eof)]
ExtractAudioCut ==
    /\ fn = "extract_audio_data" /\ pc = "eof"
    /\ binary' = CutAtEof(binary)
    /\ pc' = "decode"
    /\ UNCHANGED <<fn, secret, image_bytes, audio_bytes, pixels, params, samples,
                   bit_idx, x, y, new_samples, output, error, text, origin>>

\* the text loop; return text
ExtractAudioDecode ==
    /\ fn = "extract_audio_data" /\ pc = "decode"
    /\ text' = DecodeText(binary)
    /\ pc' = "returned"
    /\ UNCHANGED <<fn, secret, image_bytes, audio_bytes, pixels, params, samples,
                   binary, bit_idx, x, y, new_samples, output, error, origin>>

-----------------------------------------------------------------------------
(* A carrier returned by embed_* is handed to the matching extract_* *)

ExtractReturnedImage ==
    /\ fn = "embed_image_data" /\ pc = "returned"
    /\ origin' = [fn |-> fn, secret |-> secret, image_bytes |-> image_bytes,
                  audio_bytes |-> audio_bytes, binary |-> binary]
    /\ fn' = "extract_image_data"
    /\ image_bytes' = [width |-> output.width, height |-> output.height, px |-> output.px]
    /\ pc' = "call"
    /\ pixels' = <<>>
    /\ binary' = <<>>
    /\ bit_idx' = 0
    /\ x' = 0
    /\ y' = 0
    /\ UNCHANGED <<secret, audio_bytes, params, samples, new_samples, output, error, text>>

ExtractReturnedAudio ==
    /\ fn = "embed_audio_data" /\ pc = "returned"
    /\ origin' = [fn |-> fn, secret |-> secret, image_bytes |-> image_bytes,
                  audio_bytes |-> audio_bytes, binary |-> binary]
    /\ fn' = "extract_audio_data"
    /\ audio_bytes' = [nchannels |-> output.nchannels, sampwidth |-> output.sampwidth,
                       framerate |-> output.framerate, frames |-> output.frames]
    /\ pc' = "call"
    /\ params' = NoAudio
    /\ samples' = <<>>
    /\ new_samples' = <<>>
    /\ binary' = <<>>
    /\ UNCHANGED <<secret, image_bytes, pixels, bit_idx, x, y, output, error, text>>

-----------------------------------------------------------------------------

Next ==
    \/ EmbedImageOpen
    \/ EmbedImageFrame
    \/ EmbedImageCheck
    \/ EmbedImagePixel
    \/ EmbedImageSave
    \/ ExtractImageScan
    \/ ExtractImageCut
    \/ ExtractImageDecode
    \/ EmbedAudioOpen
    \/ EmbedAudioFrame
    \/ EmbedAudioCheck
    \/ EmbedAudioSample
    \/ EmbedAudioSave
    \/ ExtractAudioOpen
    \/ ExtractAudioScan
    \/ ExtractAudioCut
    \/ ExtractAudioDecode
    \/ ExtractReturnedImage
    \/ ExtractReturnedAudio

Spec == Init /\ [][Next]_vars

-----------------------------------------------------------------------------
(* Vocabulary of the properties.  Units are addressed the way the properties *)
(* address them: channel k mod 3 of the pixel at row-major index k div 3,   *)
(* and sample k of the little-endian 16-bit stream.                          *)

ImageFns == {"embed_image_data", "extract_image_data"}
AudioFns == {"embed_audio_data", "extract_audio_data"}
EmbedFns == {"embed_image_data", "embed_audio_data"}
ExtractFns == {"extract_image_data", "extract_audio_data"}

ImgCap(im) == 3 * im.width * im.height
ImgUnit(im, k) == im.px[<<(k \div 3) % im.width, (k \div 3) \div im.width>>][(k % 3) + 1]

AudCap(a) == Len(a.frames) \div 2
AudUnit(a, k) ==
    LET u == a.frames[2 * k + 1] + 256 * a.frames[2 * k + 2]
    IN IF u >= 32768 THEN u - 65536 ELSE u

\* the call of embed_* of this behaviour, while it runs and after its
\* result was handed to extract_*
EmbedRuns == origin.fn = "none" /\ fn \in EmbedFns
EmbedDone == origin.fn # "none"
EmbedImage == IF EmbedDone THEN origin.image_bytes ELSE image_bytes
EmbedAudio == IF EmbedDone THEN origin.audio_bytes ELSE audio_bytes
OfImage == fn \in ImageFns

\* an embed_* call has returned a carrier
Embedded == output.kind # "none"

InCap == IF OfImage THEN ImgCap(EmbedImage) ELSE AudCap(EmbedAudio)
InUnit(k) == IF OfImage THEN ImgUnit(EmbedImage, k) ELSE AudUnit(EmbedAudio, k)
OutCap == IF OfImage THEN ImgCap(output) ELSE AudCap(output)
OutUnit(k) == IF OfImage THEN ImgUnit(output, k) ELSE AudUnit(output, k)

\* LSB streams, unit 0 first
InBits == [k \in 1..InCap |-> InUnit(k - 1) % 2]
OutBits == [k \in 1..OutCap |-> OutUnit(k - 1) % 2]
ArgBits ==
    IF OfImage THEN [k \in 1..ImgCap(image_bytes) |-> ImgUnit(image_bytes, k - 1) % 2]
    ELSE [k \in 1..AudCap(audio_bytes) |-> AudUnit(audio_bytes, k - 1) % 2]

\* fifteen 1 bits and one 0 bit start at 0-based index p of bits
MarkerAt(bits, p) ==
    /\ p >= 0
    /\ p + 16 <= Len(bits)
    /\ \A j \in 1..15 : bits[p + j] = 1
    /\ bits[p + 16] = 0

HasMarker(bits) == \E p \in 0..Len(bits) : MarkerAt(bits, p)
FirstMarker(bits, p) == MarkerAt(bits, p) /\ \A q \in 0..(p - 1) : ~MarkerAt(bits, q)

\* value of the j-th group of 8 bits, most significant bit first
Group(bits, j) ==
    LET b(i) == bits[8 * (j - 1) + i]
    IN 128 * b(1) + 64 * b(2) + 32 * b(3) + 16 * b(4) + 8 * b(5) + 4 * b(6) + 2 * b(7) + b(8)

Groups(bits, n) == [j \in 1..n |-> Group(bits, j)]

\* bit i (1 = most significant of 8) of a code point
BitOf(c, i) == (c \div (2 ^ (8 - i))) % 2

\* the stream is not one channel of 2-byte samples
NotMono16(a) == a.nchannels # 1 \/ a.sampwidth # 2

Latin1 == \A j \in 1..Len(secret) : secret[j] < 256

-----------------------------------------------------------------------------
(* Properties *)

\* C1 - round trip: when 8*len(M)+16 fits the carrier, embed returns a
\* carrier and extracting from it yields exactly M
C1_RoundTrip ==
    /\ (EmbedRuns /\ 8 * Len(secret) + 16 <= InCap /\ (OfImage \/ ~NotMono16(EmbedAudio)))
          => error = "none"
    /\ (EmbedDone /\ pc = "returned") => text = secret

\* C2 - capacity boundary: embed succeeds if and only if
\* 8*len(message)+16 <= capacity, and fails with the capacity error otherwise
C2_CapacityBoundary ==
    (EmbedRuns /\ pc \in {"loop", "save", "returned", "raised"} /\ error # "unsupported")
       => ((error = "too_long") <=> (8 * Len(secret) + 16 > InCap))

\* C3 - no partial write: a unit is written and a carrier is returned only
\* after the length test has passed; a call that fails with the capacity
\* error has written no unit and returns nothing
C3_NoPartialWrite ==
    /\ (fn = "embed_image_data" /\ pc # "call" /\ pixels # image_bytes.px)
          => (pc \in {"loop", "save", "returned"} /\ Len(binary) <= InCap /\ error = "none")
    /\ (fn = "embed_audio_data" /\ new_samples # <<>>)
          => (pc \in {"loop", "save", "returned"} /\ Len(binary) <= InCap /\ error = "none")
    /\ Embedded => (error = "none" /\ InCap >= 16)
    /\ error = "too_long"
          => /\ pc = "raised"
             /\ output = NoOutput
             /\ fn = "embed_image_data" => pixels = image_bytes.px
             /\ fn = "embed_audio_data" => new_samples = <<>>

C3_Witness ==
    /\ fn = "embed_image_data"
    /\ pc = "raised"
    /\ error = "too_long"
    /\ Len(secret) > 0
    /\ Len(binary) = InCap + 1

\* C4 - frame condition of a successful embed: same shape and stream
\* parameters; units from index 8*len(M)+16 on are identical to the input;
\* earlier units differ from the input at most in the LSB and audio samples
\* stay signed 16-bit
C4_FrameCondition ==
    Embedded =>
       /\ OfImage => (output.width = EmbedImage.width /\ output.height = EmbedImage.height)
       /\ ~OfImage => /\ output.nchannels = EmbedAudio.nchannels
                      /\ output.sampwidth = EmbedAudio.sampwidth
                      /\ output.framerate = EmbedAudio.framerate
                      /\ Len(output.frames) = Len(EmbedAudio.frames)
       /\ OutCap = InCap
       /\ \A k \in 0..(InCap - 1) :
             /\ k >= 8 * Len(secret) + 16 => OutUnit(k) = InUnit(k)
             /\ OutUnit(k) - (OutUnit(k) % 2) = InUnit(k) - (InUnit(k) % 2)
             /\ ~OfImage => (OutUnit(k) >= -32768 /\ OutUnit(k) <= 32767)

\* C5 - format rejection: a stream that is not mono 16-bit makes embed and
\* extract fail with the format error before samples are read, the length
\* is tested or anything is produced; a mono 16-bit stream never fails the
\* format test
C5_FormatRejection ==
    fn \in AudioFns =>
       /\ (NotMono16(audio_bytes) /\ pc # "call")
             => /\ pc = "raised"
                /\ error = "unsupported"
                /\ samples = <<>>
                /\ params = NoAudio
                /\ binary = <<>>
                /\ new_samples = <<>>
                /\ output = NoOutput
                /\ text = <<>>
       /\ ~NotMono16(audio_bytes) => error # "unsupported"

C5_Witness ==
    /\ fn = "extract_audio_data"
    /\ audio_bytes.nchannels = 2
    /\ audio_bytes.sampwidth = 2
    /\ Len(audio_bytes.frames) > 0
    /\ pc = "raised"
    /\ error = "unsupported"

\* C6 - permissive extract: extract never raises on a well-formed carrier;
\* without a marker in the LSB stream the text is the floor(capacity/8)
\* complete groups of the whole stream, a shorter trailing group is dropped
C6_PermissiveExtract ==
    (fn \in ExtractFns /\ (fn = "extract_audio_data" => ~NotMono16(audio_bytes))) =>
       /\ error = "none"
       /\ pc # "raised"
       /\ (pc = "returned" /\ ~HasMarker(ArgBits))
             => text = Groups(ArgBits, Len(ArgBits) \div 8)

C6_Witness ==
    /\ fn \in ExtractFns
    /\ pc = "returned"
    /\ ~HasMarker(ArgBits)
    /\ Len(ArgBits) % 8 # 0
    /\ Len(text) = 3
    /\ \E j \in 1..3 : text[j] # 0 /\ text[j] # 255

\* C7 - empty message: on a carrier of at least 16 units embedding the empty
\* message succeeds, the LSBs of the first 16 units become fifteen 1 bits
\* and a 0 bit, every other unit is unchanged, and extraction returns the
\* empty string
C7_EmptyMessage ==
    ((EmbedRuns \/ EmbedDone) /\ secret = <<>> /\ InCap >= 16
        /\ (~OfImage => ~NotMono16(EmbedAudio))) =>
       /\ error = "none"
       /\ Embedded =>
             /\ MarkerAt(OutBits, 0)
             /\ \A k \in 0..15 : OutUnit(k) - (OutUnit(k) % 2) = InUnit(k) - (InUnit(k) % 2)
             /\ \A k \in 16..(InCap - 1) : OutUnit(k) = InUnit(k)
             /\ OutCap = InCap
       /\ (EmbedDone /\ pc = "returned") => text = <<>>

C7_Witness ==
    /\ EmbedDone
    /\ pc = "returned"
    /\ secret = <<>>
    /\ InCap > 16
    /\ text = <<>>
    /\ \E k \in 0..15 : OutUnit(k) # InUnit(k)
    /\ \E k \in 16..(InCap - 1) : InUnit(k) % 2 = 1

\* C8 - bit placement: the bit sequence of a message of n elements has
\* exactly 8n+16 bits, 8 per element most significant first in message
\* order, then the marker; after a successful embed the LSB of unit k is
\* bit k of that sequence for every k < 8n+16
C8_BitPlacement ==
    LET n == Len(secret)
    IN /\ (EmbedRuns /\ pc \in {"check", "loop", "save", "returned"})
             => /\ Len(binary) = 8 * n + 16
                /\ \A j \in 1..n : \A i \in 1..8 : binary[8 * (j - 1) + i] = BitOf(secret[j], i)
                /\ MarkerAt(binary, 8 * n)
       /\ Embedded
             => \A k \in 0..(8 * n + 15) :
                   OutBits[k + 1] = (IF k < 8 * n
                                     THEN BitOf(secret[(k \div 8) + 1], (k % 8) + 1)
                                     ELSE IF k = 8 * n + 15 THEN 0 ELSE 1)

\* C9 - first-marker truncation: extract decodes the LSB stream cut at the
\* lowest index where the marker occurs, at any bit offset; when the
\* embedded message M has the marker at p < 8*len(M), extract returns the
\* first floor(p/8) characters of M
C9_FirstMarkerTruncation ==
    (fn \in ExtractFns /\ pc = "returned") =>
       \A p \in 0..Len(ArgBits) :
          FirstMarker(ArgBits, p) =>
             /\ text = Groups(ArgBits, p \div 8)
             /\ (EmbedDone /\ p < 8 * Len(secret)) => text = SubSeq(secret, 1, p \div 8)

\* C10 - marker position: when the 8*len(M) payload bits of M hold no
\* marker, the first marker of the embedded carrier's LSB stream is at bit
\* index 8*len(M) and extract returns M
C10_MarkerPosition ==
    LET n == Len(secret)
    IN (Embedded /\ ~HasMarker(SubSeq(OutBits, 1, 8 * n))) =>
          /\ FirstMarker(OutBits, 8 * n)
          /\ (EmbedDone /\ pc = "returned") => text = secret

-----------------------------------------------------------------------------
(* The properties that fail only on code points above 255, restricted to   *)
(* secrets of code points below 256                                         *)

\* round trip for payloads that hold no marker
Latin1_RoundTrip ==
    (Latin1 /\ EmbedDone /\ pc = "returned" /\ ~HasMarker(SubSeq(OutBits, 1, 8 * Len(secret))))
       => text = secret

Latin1_CapacityBoundary == Latin1 => C2_CapacityBoundary

\* the 10x10 image takes 35 characters and refuses 36
Latin1_FullImage ==
    (fn = "embed_image_data" /\ image_bytes = FullImage /\ pc \in {"loop", "save", "returned", "raised"})
       => ((error = "too_long") <=> (Len(secret) = 36))

Latin1_FrameCondition == Latin1 => C4_FrameCondition

Latin1_BitPlacement == Latin1 => C8_BitPlacement

Latin1_FirstMarkerTruncation == Latin1 => C9_FirstMarkerTruncation

Latin1_MarkerPosition == Latin1 => C10_MarkerPosition

====
